---- MODULE Spec2Model ----
(***************************************************************************)
(* Holdout-ensemble death model of covid_model_deaths_spline.              *)
(*                                                                         *)
(*   models.py   run_models / model_iteration / drop_days_by_indicator:    *)
(*               the per-location worker (SpecModels)                      *)
(*   runner.py   make_deaths: dispatch and collection of the workers'      *)
(*               bundles (SpecCollect), and the cross-location phase from  *)
(*               the collected bundles to the published files (SpecDeaths, *)
(*               SpecInfections)                                           *)
(***************************************************************************)
EXTENDS Integers, Sequences, FiniteSets, TLC

VARIABLES
    pc,                 \* position of the process the specification runs
    \* ---- run_models (models.py) ----
    location_id,        \* run_models argument
    dow_holdouts,       \* the holdout count handed to the worker (its doy_holdouts argument)
    n_draws,            \* draw budget (run_models and make_deaths argument)
    data_file,          \* the rows of location_id in the pickle at data_path (lines 93-95)
    rm_model_data,      \* run_models: model_data, the frame loaded at lines 93-95
    doy_holdouts,       \* run_models: doy_holdouts after line 104 (the depths)
    iteration_n_draws,  \* run_models: iteration_n_draws
    iter_data,          \* model_iteration: its local model_data (line 34 on)
    results,            \* run_models: results (line 106); make_deaths: results (line 133)
    rm_noisy_draws,     \* run_models: noisy_draws
    rm_smooth_draws,    \* run_models: smooth_draws
    \* ---- results directory (models.py 139-141, runner.py 117-136) ----
    results_path,       \* runner.py 117: the results directory, as a path
    files,              \* the paths of the files in the results directory
    pending,            \* locations whose worker has not finished yet
    \* ---- make_deaths (runner.py) ----
    model_data,         \* make_deaths: model_data
    agg_model_data,     \* make_deaths: agg_model_data
    agg_draw_df,        \* make_deaths: agg_draw_df
    smooth_draws,       \* make_deaths: smooth_draws
    smooth_draws_nans,  \* make_deaths: smooth_draws_nans
    app_metadata,       \* make_deaths: app_metadata entries set by this phase
    report,             \* problem_location_report.csv, <<>> while not written
    written             \* published files written so far, name -> content

vars == <<pc, location_id, dow_holdouts, n_draws, data_file, rm_model_data,
          doy_holdouts,
          iteration_n_draws, iter_data, results, rm_noisy_draws, rm_smooth_draws,
          results_path, files, pending, model_data, agg_model_data, agg_draw_df,
          smooth_draws, smooth_draws_nans, app_metadata, report, written>>

rmVars == <<location_id, dow_holdouts, n_draws, data_file, rm_model_data,
            doy_holdouts,
            iteration_n_draws, iter_data, results, rm_noisy_draws, rm_smooth_draws>>
dirVars == <<results_path, files, pending>>
mdVars == <<model_data, agg_model_data, agg_draw_df, smooth_draws,
            smooth_draws_nans, app_metadata, report, written>>

-----------------------------------------------------------------------------
(* Bounds of the model.                                                    *)
MaxHoldouts == 2        \* dow_holdouts ranges over 0..MaxHoldouts
SeriesLen == 3          \* rows (dates) of one location's series
MaxDate == 3            \* dates of one location in the collected draw tables

DrawBudgets == {1, 2, 3, 7, 10}     \* n_draws of a worker
LocationIds == {2, 3}               \* most detailed locations (hierarchy)

-----------------------------------------------------------------------------
(* Generic helpers.                                                        *)
Range(s) == {s[i] : i \in DOMAIN s}

Max(a, b) == IF a >= b THEN a ELSE b

Min(a, b) == IF a <= b THEN a ELSE b

RECURSIVE SumSeq(_)
SumSeq(s) == IF s = <<>> THEN 0 ELSE s[1] + SumSeq(Tail(s))

RECURSIVE SelectIdx(_, _, _)
\* the ascending sequence of the indices i >= from of s with s[i] # skip
SelectIdx(s, skip, from) ==
    IF from > Len(s) THEN <<>>
    ELSE IF s[from] # skip THEN <<from>> \o SelectIdx(s, skip, from + 1)
    ELSE SelectIdx(s, skip, from + 1)

-----------------------------------------------------------------------------
(* numpy / pandas primitives used by models.py.                            *)

\* np.nan: a missing value (observations and counts are >= 0)
NaN == -999

\* np.argwhere(~np.isnan(data)): the positions of the non-missing values, ascending
NonNanIdx(data) == SelectIdx(data, NaN, 1)

\* s[-k:] for k > 0: the last k elements, all of s when k > len(s)
LastSlice(s, k) == SubSeq(s, Max(1, Len(s) - k + 1), Len(s))

\* A numpy scalar: its value and whether its dtype is float64.
NpInt(v) == [val |-> v, float |-> FALSE]

\* np.sum of a python list of ints: np.sum([]) is the float64 0.0 (an empty
\* list converts to a float64 array), np.sum of a non-empty list is an int64
NpSum(s) == IF s = <<>> THEN [val |-> 0, float |-> TRUE] ELSE NpInt(SumSeq(s))

\* int64 + float64 is float64
NpAdd(a, b) == [val |-> a.val + b.val, float |-> a.float \/ b.float]

\* f'{x}' of a numpy scalar: an int64 prints as 3, a float64 as 3.0
Format(x) == IF x.float THEN ToString(x.val) \o ".0" ELSE ToString(x.val)

\* f'draw_{x}': a column name, kept as its literal part and its formatted part
DrawCol(x) == <<"draw_", Format(x)>>

\* col.startswith('draw_')
IsDrawCol(c) == c[1] = "draw_"

\* np.arange(n) as a sequence
Arange(n) == [i \in 1..n |-> i - 1]

\* df.rename(columns=mapping) on the column names: a name the mapping has is
\* replaced by its image, every other name is kept
RenameCols(cols, from, to) ==
    [i \in 1..Len(cols) |->
        IF \E k \in 1..Len(from) : from[k] = cols[i]
        THEN to[CHOOSE k \in 1..Len(from) : from[k] = cols[i]]
        ELSE cols[i]]

\* pd.merge(x, y, how='outer') on the column names: the columns of x, then the
\* columns of y that x does not have (common columns are join keys)
RECURSIVE NotIn(_, _)
NotIn(s, keep) ==
    IF s = <<>> THEN <<>>
    ELSE IF s[1] \in keep THEN NotIn(Tail(s), keep)
    ELSE <<s[1]>> \o NotIn(Tail(s), keep)

MergeCols(x, y) == x \o NotIn(y, Range(x))

RECURSIVE ReduceMerge(_)
\* functools.reduce(lambda x, y: pd.merge(x, y, how='outer'), tables)
ReduceMerge(tables) ==
    IF Len(tables) = 1 THEN tables[1]
    ELSE ReduceMerge(<<MergeCols(tables[1], tables[2])>> \o SubSeq(tables, 3, Len(tables)))

-----------------------------------------------------------------------------
(* models.py                                                               *)

Indicators == {"Death rate", "Confirmed case rate", "Hospitalization rate"}

\* a frame is a sequence of rows [Date, ind], ind the three indicator values
Column(frame, c) == [i \in 1..Len(frame) |-> frame[i].ind[c]]

\* a variant that slices [:doy_holdout] instead of [-doy_holdout:]
drop_days_by_indicator_head(data, doy_holdout) ==
    IF doy_holdout > 0
    THEN LET drop_idx == SubSeq(NonNanIdx(data), 1, Min(doy_holdout, Len(NonNanIdx(data))))
         IN  [i \in 1..Len(data) |-> IF i \in Range(drop_idx) THEN NaN ELSE data[i]]
    ELSE data

\* models.py 21-27
drop_days_by_indicator(data, doy_holdout) ==
    IF doy_holdout > 0
    THEN LET drop_idx == LastSlice(NonNanIdx(data), doy_holdout)
         IN  [i \in 1..Len(data) |-> IF i \in Range(drop_idx) THEN NaN ELSE data[i]]
    ELSE data

\* models.py 36-37: every indicator column replaced by its blanked values
DropIndicators(frame, doy_holdout) ==
    [i \in 1..Len(frame) |->
        [frame[i] EXCEPT !.ind =
            [c \in Indicators |-> drop_days_by_indicator(Column(frame, c), doy_holdout)[i]]]]

\* a variant without line 34: the local name still refers to the caller's
\* frame, and the writes of lines 25 and 37 reach it
CallerFrame_Shared(caller, local) == local

\* models.py 34: model_data.copy() (a deep copy) gives the local name a frame
\* of its own; this is the caller's frame once lines 36-37 have written the
\* blanked columns to the local one
CallerFrame(caller, local) == caller

\* models.py 38: the rows where not every indicator is missing
RECURSIVE DropAllNull(_)
DropAllNull(frame) ==
    IF frame = <<>> THEN <<>>
    ELSE IF \A c \in Indicators : frame[1].ind[c] = NaN THEN DropAllNull(Tail(frame))
    ELSE <<frame[1]>> \o DropAllNull(Tail(frame))

\* smoother.synthesize_time_series: the columns of a draw table it returns for
\* n draws (keys, population, then draw_0 .. draw_{n-1})
SynthesizedCols(n) ==
    <<<<"location_id">>, <<"Date">>, <<"population">>>>
        \o [k \in 1..n |-> DrawCol(NpInt(Arange(n)[k]))]

\* a variant without line 103
IterationNDraws_NoRemainder(n, holdouts) ==
    [i \in 1..(holdouts + 1) |-> n \div (holdouts + 1)]

\* models.py 101-103: the draw allocation, for doy_holdouts += 1 iterations
IterationNDraws(n, holdouts) ==
    LET k == holdouts + 1
        base == [i \in 1..k |-> n \div k]       \* [int(n_draws / doy_holdouts)] * doy_holdouts
    IN  [base EXCEPT ![k] = base[k] + (n - NpSum(base).val)]

\* models.py 111-113: the local and the global column names of iteration i
\* (i counts from 1 here, enumerate counts from 0)
Cols(alloc, i) == [k \in 1..alloc[i] |-> DrawCol(NpInt(Arange(alloc[i])[k]))]

NewCols(alloc, i) ==
    LET col_add == NpSum(SubSeq(alloc, 1, i - 1))
    IN  [k \in 1..alloc[i] |-> DrawCol(NpAdd(NpInt(Arange(alloc[i])[k]), col_add))]

\* models.py 110-123: rename every iteration's draw columns, then outer-merge
AssembleDraws(res, alloc, which) ==
    ReduceMerge([i \in 1..Len(res) |->
        RenameCols(res[i][which], Cols(alloc, i), NewCols(alloc, i))])

\* models.py 129-135: Date renamed to date, population dropped after rescaling
Rescaled(cols) ==
    RenameCols(NotIn(cols, {<<"population">>}), <<<<"Date">>>>, <<<<"date">>>>)

\* str(n) for n >= 0, as its characters
Digit(d) == CASE d = 0 -> "0" [] d = 1 -> "1" [] d = 2 -> "2" [] d = 3 -> "3"
              [] d = 4 -> "4" [] d = 5 -> "5" [] d = 6 -> "6" [] d = 7 -> "7"
              [] d = 8 -> "8" [] d = 9 -> "9"

RECURSIVE Str(_)
Str(n) == IF n < 10 THEN <<Digit(n)>> ELSE Str(n \div 10) \o <<Digit(n % 10)>>

\* models.py 139-140: output_dir / f'{location_id}.pkl'
ResultFile(dir, loc) == dir \o <<"/">> \o Str(loc) \o <<".", "p", "k", "l">>

-----------------------------------------------------------------------------
(* run_models as a process: SpecModels.                                    *)

\* the series of one location: Date i carries the observation i or is missing;
\* the hospitalization channel is entirely observed or entirely missing
SeriesFrames ==
    {[i \in 1..SeriesLen |->
        [Date |-> i,
         ind |-> [c \in Indicators |->
                    IF c = "Death rate" THEN (IF i \in d THEN i ELSE NaN)
                    ELSE IF c = "Confirmed case rate" THEN (IF i \in cc THEN i ELSE NaN)
                    ELSE (IF h THEN i ELSE NaN)]]] :
        d \in SUBSET (1..SeriesLen), cc \in SUBSET (1..SeriesLen), h \in BOOLEAN}

ResultsDirs == {<<"/", "o", "u", "t">>}

MdIdle ==
    /\ model_data = <<>> /\ agg_model_data = <<>> /\ agg_draw_df = <<>>
    /\ smooth_draws = <<>> /\ smooth_draws_nans = <<>>
    /\ app_metadata = <<>> /\ report = <<>> /\ written = <<>>

InitModels ==
    /\ pc = "run_models"
    /\ location_id \in LocationIds
    /\ dow_holdouts \in 0..MaxHoldouts
    /\ n_draws \in DrawBudgets
    /\ data_file \in SeriesFrames
    /\ rm_model_data = data_file
    /\ doy_holdouts = <<>>
    /\ iteration_n_draws = <<>>
    /\ iter_data = <<>>
    /\ results = <<>>
    /\ rm_noisy_draws = <<>>
    /\ rm_smooth_draws = <<>>
    /\ results_path \in ResultsDirs
    /\ files = {}
    /\ pending = {}
    /\ MdIdle

\* models.py 100-104
Allocate ==
    /\ pc = "run_models"
    /\ iteration_n_draws' = IterationNDraws(n_draws, dow_holdouts)
    /\ doy_holdouts' = Arange(dow_holdouts + 1)
    /\ pc' = "iterate"
    /\ UNCHANGED <<location_id, dow_holdouts, n_draws, data_file, rm_model_data, iter_data,
                   results, rm_noisy_draws, rm_smooth_draws>>
    /\ UNCHANGED <<dirVars, mdVars>>

\* models.py 30-37: model_iteration of the next (h, d) of line 106 copies the
\* caller's frame and blanks the three indicators of the copy
DropDays ==
    /\ pc = "iterate"
    /\ Len(results) < Len(doy_holdouts)
    /\ LET h == doy_holdouts[Len(results) + 1]
           local == DropIndicators(rm_model_data, h)
       IN  /\ iter_data' = local
           /\ rm_model_data' = CallerFrame(rm_model_data, local)
    /\ pc' = "dropped"
    /\ UNCHANGED <<location_id, dow_holdouts, n_draws, data_file, doy_holdouts,
                   iteration_n_draws, results, rm_noisy_draws, rm_smooth_draws>>
    /\ UNCHANGED <<dirVars, mdVars>>

\* models.py 38-72: the rest of model_iteration, its result appended to results
FitIteration ==
    /\ pc = "dropped"
    /\ LET i == Len(results) + 1
           kept == DropAllNull(iter_data)
       IN  results' = Append(results,
                [model_data |-> kept,
                 doy_holdout |-> doy_holdouts[i],
                 noisy_draws |-> SynthesizedCols(iteration_n_draws[i]),
                 smooth_draws |-> SynthesizedCols(iteration_n_draws[i])])
    /\ iter_data' = <<>>
    /\ pc' = "iterate"
    /\ UNCHANGED <<location_id, dow_holdouts, n_draws, data_file, rm_model_data,
                   doy_holdouts,
                   iteration_n_draws, rm_noisy_draws, rm_smooth_draws>>
    /\ UNCHANGED <<dirVars, mdVars>>

\* models.py 107-123
Assemble ==
    /\ pc = "iterate"
    /\ Len(results) = Len(doy_holdouts)
    /\ rm_noisy_draws' = AssembleDraws(results, iteration_n_draws, "noisy_draws")
    /\ rm_smooth_draws' = AssembleDraws(results, iteration_n_draws, "smooth_draws")
    /\ rm_model_data' = results[1].model_data       \* line 107
    /\ pc' = "assembled"
    /\ UNCHANGED <<location_id, dow_holdouts, n_draws, data_file, doy_holdouts,
                   iteration_n_draws, iter_data, results>>
    /\ UNCHANGED <<dirVars, mdVars>>

\* models.py 125-141
Save ==
    /\ pc = "assembled"
    /\ rm_noisy_draws' = Rescaled(rm_noisy_draws)
    /\ rm_smooth_draws' = Rescaled(rm_smooth_draws)
    /\ files' = files \cup {ResultFile(results_path, location_id)}
    /\ pc' = "saved"
    /\ UNCHANGED <<location_id, dow_holdouts, n_draws, data_file, rm_model_data,
                   doy_holdouts,
                   iteration_n_draws, iter_data, results>>
    /\ UNCHANGED <<results_path, pending, mdVars>>

NextModels == Allocate \/ DropDays \/ FitIteration \/ Assemble \/ Save

SpecModels == InitModels /\ [][NextModels]_vars

-----------------------------------------------------------------------------
(* Properties of run_models.                                               *)

Allocated == pc \in {"iterate", "dropped", "assembled", "saved"}

\* C1: for every holdout count H >= 0 and draw budget n_draws > 0 the draw
\* allocation of run_models has H+1 entries for the depths 0..H in ascending
\* order, sums to n_draws, its first H entries are floor(n_draws/(H+1)) and its
\* last entry is that plus the remainder; H = 0 gives <<n_draws>> and H = 2,
\* n_draws = 10 gives <<3, 3, 4>>.
C1_DrawAllocation ==
    Allocated =>
        LET H == dow_holdouts
            base == n_draws \div (H + 1)
        IN  /\ Len(iteration_n_draws) = H + 1
            /\ doy_holdouts = [i \in 1..(H + 1) |-> i - 1]
            /\ SumSeq(iteration_n_draws) = n_draws
            /\ \A i \in 1..H : iteration_n_draws[i] = base
            /\ iteration_n_draws[H + 1] = base + (n_draws - (H + 1) * base)
            /\ (H = 0 => iteration_n_draws = <<n_draws>>)
            /\ (H = 2 /\ n_draws = 10 => iteration_n_draws = <<3, 3, 4>>)

C1_Witness ==
    /\ pc = "iterate"
    /\ dow_holdouts = 2 /\ n_draws = 10
    /\ iteration_n_draws = <<3, 3, 4>>
    /\ doy_holdouts = <<0, 1, 2>>

\* the number of non-missing values of a channel
NonMissing(data) == Cardinality({i \in 1..Len(data) : data[i] # NaN})

\* C2: at holdout depth h, drop_days_by_indicator sets to missing exactly the
\* min(h, m) non-missing observations of a channel that come last in row order
\* (m the channel's number of non-missing observations), leaves every earlier
\* observation and every missing position as it was, and returns the channel
\* unchanged for h = 0; this holds of each of the three channels on its own.
C2_TailBlanking ==
    pc = "dropped" =>
        LET h == doy_holdouts[Len(results) + 1]
        IN  /\ Len(iter_data) = Len(rm_model_data)
            /\ \A i \in 1..Len(iter_data) : iter_data[i].Date = rm_model_data[i].Date
            /\ \A c \in Indicators :
                LET orig == Column(rm_model_data, c)
                    new == Column(iter_data, c)
                    later(i) == Cardinality({j \in (i + 1)..Len(orig) : orig[j] # NaN})
                IN  /\ Cardinality({i \in 1..Len(orig) : orig[i] # NaN /\ new[i] = NaN})
                          = Min(h, NonMissing(orig))
                    /\ \A i \in 1..Len(orig) :
                          IF orig[i] = NaN \/ later(i) < h
                          THEN new[i] = NaN
                          ELSE new[i] = orig[i]
                    /\ (h = 0 => new = orig)

\* depth 2 on a series whose death channel has three observations (two of them
\* blanked) and whose case channel has one (fewer than the depth: all blanked)
C2_Witness ==
    /\ pc = "dropped"
    /\ doy_holdouts[Len(results) + 1] = 2
    /\ NonMissing(Column(rm_model_data, "Death rate")) = 3
    /\ NonMissing(Column(iter_data, "Death rate")) = 1
    /\ NonMissing(Column(rm_model_data, "Confirmed case rate")) = 1
    /\ NonMissing(Column(iter_data, "Confirmed case rate")) = 0

DrawColsOf(cols) == {c \in Range(cols) : IsDrawCol(c)}

\* C3: after the assembly loop the draw columns of iteration i are named
\* draw_c .. draw_{c+d_i-1}, c the sum of the earlier quotas, so the ranges of
\* different iterations are disjoint, their union is draw_0 .. draw_{n_draws-1},
\* and the noisy and the smooth table have exactly n_draws draw columns each.
C3_GlobalDrawIds ==
    pc = "assembled" =>
        LET expected == {<<"draw_", ToString(k)>> : k \in 0..(n_draws - 1)}
            range(i) == {<<"draw_", ToString(k)>> :
                            k \in SumSeq(SubSeq(iteration_n_draws, 1, i - 1))
                                  ..(SumSeq(SubSeq(iteration_n_draws, 1, i)) - 1)}
        IN  /\ \A i \in 1..Len(results) : Range(NewCols(iteration_n_draws, i)) = range(i)
            /\ DrawColsOf(rm_smooth_draws) = expected
            /\ DrawColsOf(rm_noisy_draws) = expected
            /\ Cardinality(DrawColsOf(rm_smooth_draws)) = n_draws
            /\ Cardinality(DrawColsOf(rm_noisy_draws)) = n_draws

\* C11: while run_models runs the iterations of depths 0..H one after another,
\* every call of model_iteration leaves the caller's series as it was loaded,
\* so the blanking does not accumulate: the series blanked at depth h differs
\* from the loaded series in exactly the last min(h, m) non-missing
\* observations of each channel (m the channel's number of non-missing
\* observations in the loaded series), whatever iterations ran before.
C11_CallerSeriesUnchanged ==
    /\ pc \in {"run_models", "iterate", "dropped"} => rm_model_data = data_file
    /\ pc = "dropped" =>
        LET h == doy_holdouts[Len(results) + 1]
        IN  /\ Len(iter_data) = Len(data_file)
            /\ \A c \in Indicators :
                LET orig == Column(data_file, c)
                    new == Column(iter_data, c)
                    changed == {i \in 1..Len(orig) : new[i] # orig[i]}
                    later(i) == Cardinality({j \in (i + 1)..Len(orig) : orig[j] # NaN})
                IN  /\ changed = {i \in 1..Len(orig) : orig[i] # NaN /\ later(i) < h}
                    /\ Cardinality(changed) = Min(h, NonMissing(orig))
                    /\ \A i \in changed : new[i] = NaN

\* the third iteration (depth 2, after depths 0 and 1 ran) on a series whose
\* death channel has three observations: one is left, and the caller's series
\* still has all three
C11_Witness ==
    /\ pc = "dropped"
    /\ Len(results) = 2
    /\ doy_holdouts[Len(results) + 1] = 2
    /\ NonMissing(Column(data_file, "Death rate")) = 3
    /\ NonMissing(Column(rm_model_data, "Death rate")) = 3
    /\ NonMissing(Column(iter_data, "Death rate")) = 1

-----------------------------------------------------------------------------
(* runner.py: launching the workers and collecting their bundles           *)
(* (SpecCollect).                                                          *)

PARENT_MODEL_LOCATIONS == {189}

\* declared aggregate locations (agg_hierarchy), modelled like a location
AggregateIds == {5}

\* '_deaths', as its characters
DEATHS_TAG == <<"_", "d", "e", "a", "t", "h", "s">>

\* needle in hay, for strings given as their characters
Contains(hay, needle) ==
    \E i \in 1..(Len(hay) - Len(needle) + 1) :
        SubSeq(hay, i, i + Len(needle) - 1) = needle

\* output_root of a run
OutputRoots ==
    { <<"/", "o", "u", "t">>,
      <<"/", "c", "o", "v", "i", "d", "_", "d", "e", "a", "t", "h", "s">> }

\* runner.py 106, 117: output_root / 'model_working_dir' / 'model_outputs'
ResultsPath(output_root) ==
    output_root
      \o <<"/", "m", "o", "d", "e", "l", "_", "w", "o", "r", "k", "i", "n", "g", "_", "d", "i", "r">>
      \o <<"/", "m", "o", "d", "e", "l", "_", "o", "u", "t", "p", "u", "t", "s">>

RECURSIVE SortedSeq(_)
\* the elements of a set of integers in ascending order
SortedSeq(S) ==
    IF S = {} THEN <<>>
    ELSE LET m == CHOOSE x \in S : \A y \in S : x <= y
         IN  <<m>> \o SortedSeq(S \ {m})

\* the orders a directory listing (iterdir) can come in
Orderings(S) ==
    {q \in [1..Cardinality(S) -> S] : \A i, j \in 1..Cardinality(S) : i # j => q[i] # q[j]}

\* model_data['location_id'].unique()
LocationsOf(frame) == {frame[i].location_id : i \in 1..Len(frame)}

\* runner.py 123-129: the keys of job_args_map
JobLocations(frame) == LocationsOf(frame) \ PARENT_MODEL_LOCATIONS

\* the rows (location_id, Date) of a frame over the locations S, sorted
FrameOver(S, dates) ==
    LET locs == SortedSeq(S)
    IN  [i \in 1..(Len(locs) * dates) |->
            [location_id |-> locs[((i - 1) \div dates) + 1], Date |-> ((i - 1) % dates) + 1]]

\* runner.py 134: '_deaths' in str(f)
IsDeathsFile(f) == Contains(f, DEATHS_TAG)

InitCollect ==
    /\ pc = "launch"
    /\ \E S \in (SUBSET (LocationIds \cup AggregateIds \cup PARENT_MODEL_LOCATIONS)) \ {{}} :
          model_data = FrameOver(S, 1)
    /\ \E root \in OutputRoots : results_path = ResultsPath(root)
    /\ files = {}
    /\ pending = {}
    /\ results = <<>>
    /\ n_draws \in DrawBudgets
    /\ dow_holdouts \in 0..MaxHoldouts
    /\ location_id = 0 /\ data_file = <<>> /\ rm_model_data = <<>> /\ doy_holdouts = <<>>
    /\ iteration_n_draws = <<>> /\ iter_data = <<>>
    /\ rm_noisy_draws = <<>> /\ rm_smooth_draws = <<>>
    /\ agg_model_data = <<>> /\ agg_draw_df = <<>>
    /\ smooth_draws = <<>> /\ smooth_draws_nans = <<>>
    /\ app_metadata = <<>> /\ report = <<>> /\ written = <<>>

\* runner.py 105-130: the results directory is made and one job per location
\* of job_args_map is submitted
Launch ==
    /\ pc = "launch"
    /\ pending' = JobLocations(model_data)
    /\ pc' = "running"
    /\ UNCHANGED <<rmVars, results_path, files, mdVars>>

\* models.py 137-141, 144-152: the worker of location loc ends run_models by
\* writing its bundle
WorkerSaves(loc) ==
    /\ pc = "running"
    /\ loc \in pending
    /\ files' = files \cup {ResultFile(results_path, loc)}
    /\ pending' = pending \ {loc}
    /\ UNCHANGED <<pc, rmVars, results_path, mdVars>>

\* a worker that raises before line 140 writes nothing (the locations
\* runner.py 140-146 reports as failed_model_locations)
WorkerFails(loc) ==
    /\ pc = "running"
    /\ loc \in pending
    /\ pending' = pending \ {loc}
    /\ UNCHANGED <<pc, rmVars, results_path, files, mdVars>>

\* runner.py 132-139: every file of the directory that passes the filter is
\* loaded, in listing order; a bundle is identified here by the path it was
\* written to. pd.concat of an empty list raises.
Collect ==
    /\ pc = "running"
    /\ pending = {}
    /\ \E listing \in Orderings({f \in files : IsDeathsFile(f)}) :
          /\ results' = listing
          /\ pc' = IF listing = <<>> THEN "concat_failed" ELSE "collected"
    /\ UNCHANGED <<location_id, dow_holdouts, n_draws, data_file, rm_model_data,
                   doy_holdouts,
                   iteration_n_draws, iter_data, rm_noisy_draws, rm_smooth_draws>>
    /\ UNCHANGED <<dirVars, mdVars>>

NextCollect ==
    \/ Launch
    \/ \E loc \in LocationIds \cup AggregateIds : WorkerSaves(loc)
    \/ \E loc \in LocationIds \cup AggregateIds : WorkerFails(loc)
    \/ Collect

SpecCollect == InitCollect /\ [][NextCollect]_vars

\* C10: when every worker of a run persists its bundle under the results
\* directory, the collection step loads exactly those bundles: every bundle a
\* worker wrote is read back exactly once and nothing else is loaded.
C10_BundlesReadBack ==
    pc \in {"collected", "concat_failed"} =>
        /\ Range(results) = files
        /\ Len(results) = Cardinality(files)

-----------------------------------------------------------------------------
(* runner.py: the cross-location phase of make_deaths (SpecDeaths).        *)
(*                                                                         *)
(* A frame row is [location_id, Date]; a draw-table row is                 *)
(* [location_id, date, draws], draws[j] the value of column draw_{j-1}.    *)
(* The 'observed' columns (215, 217, 225, 237) and the plots (199-210) are *)
(* left out: no property below reads them.                                 *)

DeathDrawBudgets == {1, 2}      \* n_draws of the cross-location phase
CumValues == {5, 12, 20}        \* cumulative counts of a smooth draw
FixedCum == <<12, 20>>          \* the cumulative series of the second location

\* Location(1, 'Global') of line 192
GlobalId == 1

SetMin(S) == CHOOSE x \in S : \A y \in S : x <= y

SetMax(S) == CHOOSE x \in S : \A y \in S : x >= y

RECURSIVE Flatten(_)
\* pd.concat of a list of tables
Flatten(tables) == IF tables = <<>> THEN <<>> ELSE tables[1] \o Flatten(Tail(tables))

DateOf(row) == IF "date" \in DOMAIN row THEN row.date ELSE row.Date

\* row a sorts before row b on (location_id, date)
RowBefore(a, b) ==
    \/ a.location_id < b.location_id
    \/ a.location_id = b.location_id /\ DateOf(a) < DateOf(b)

\* the position of rows[k] once sorted (the sort is stable)
Rank(rows, k) ==
    1 + Cardinality({m \in 1..Len(rows) :
            \/ RowBefore(rows[m], rows[k])
            \/ m < k /\ ~RowBefore(rows[k], rows[m])})

\* sort_values(['location_id', 'Date']) / sort_index() on (location_id, date)
SortRows(rows) ==
    [i \in 1..Len(rows) |-> rows[CHOOSE k \in 1..Len(rows) : Rank(rows, k) = i]]

\* the dates of the rows of location loc
DatesOf(rows, loc) == {DateOf(rows[i]) : i \in {k \in 1..Len(rows) : rows[k].location_id = loc}}

\* runner.py 162: smooth_draws.isnull().any(axis=1)
IsNanRow(row) == \E j \in DOMAIN row.draws : row.draws[j] = NaN

NotNanRow(row) == ~IsNanRow(row)

\* a variant taking the latest NaN date
NanMin_Max(nans, loc) == SetMax(DatesOf(nans, loc))

\* runner.py 171: smooth_draws_nans.groupby('location_id')['date'].min()
NanMin(nans, loc) == SetMin(DatesOf(nans, loc))

\* runner.py 172: smooth_draws.groupby('location_id')['date'].max()
ValMax(vals, loc) == SetMax(DatesOf(vals, loc))

NotNull(entry) == entry.value # NaN

\* runner.py 173-174: nan_min - val_max aligns the two indexes on their union,
\* a location missing from either side gets a null, and the nulls are dropped
DateDiffs(nans, vals) ==
    LET index == SortedSeq(LocationsOf(nans) \cup LocationsOf(vals))
        diff(loc) == IF loc \in LocationsOf(nans) /\ loc \in LocationsOf(vals)
                     THEN NanMin(nans, loc) - ValMax(vals, loc)
                     ELSE NaN
    IN  SelectSeq([k \in 1..Len(index) |-> [location_id |-> index[k], value |-> diff(index[k])]],
                  NotNull)

\* a variant with the comparison reversed
Raises_Positive(date_diffs) == \E k \in 1..Len(date_diffs) : date_diffs[k].value > 0

\* runner.py 176: (date_diffs < 0).any()
Raises(date_diffs) == \E k \in 1..Len(date_diffs) : date_diffs[k].value < 0

\* Series.to_csv(path, index=...): a header line, then one line per entry; the
\* index (location_id) is a field of the line only when index is true
ToCsv(series, index) ==
    <<IF index THEN <<"location_id", "date">> ELSE <<"date">>>>
      \o [k \in 1..Len(series) |->
            IF index THEN <<series[k].location_id, series[k].value>>
            ELSE <<series[k].value>>]

\* aggregate.compute_location_aggregates_data: for every aggregate location a
\* row per date of its constituents (here: every most detailed location),
\* carrying the aggregate's declared id
ComputeLocationAggregatesData(frame, agg_locations) ==
    Flatten([a \in 1..Len(agg_locations) |->
        LET dates == SortedSeq(UNION {DatesOf(frame, l) : l \in LocationIds})
        IN  [k \in 1..Len(dates) |-> [location_id |-> agg_locations[a], Date |-> dates[k]]]])

\* aggregate.compute_location_aggregates_draws: as above, the draws of the
\* constituents summed per draw column
ComputeLocationAggregatesDraws(rows, agg_locations, n) ==
    Flatten([a \in 1..Len(agg_locations) |->
        LET dates == SortedSeq(UNION {DatesOf(rows, l) : l \in LocationIds})
            parts(d) == SelectSeq(rows, LAMBDA r : r.location_id \in LocationIds /\ r.date = d)
        IN  [k \in 1..Len(dates) |->
                [location_id |-> agg_locations[a], Date |-> dates[k],
                 draws |-> [j \in 1..n |->
                    SumSeq([i \in 1..Len(parts(dates[k])) |-> parts(dates[k])[i].draws[j]])]]]])

\* a variant that keeps the ids as returned
NotNegated(rows) == rows

\* runner.py 194, 198: df['location_id'] = -df['location_id']
Negated(rows) == [i \in 1..Len(rows) |-> [rows[i] EXCEPT !.location_id = -rows[i].location_id]]

\* np.diff(x[draw_cols], axis=0, prepend=0) on the rows of one location
DiffBlock(block) ==
    [k \in 1..Len(block) |->
        [block[k] EXCEPT !.draws =
            [j \in DOMAIN block[k].draws |->
                block[k].draws[j] - (IF k = 1 THEN 0 ELSE block[k - 1].draws[j])]]]

\* a variant without the groupby
DailyDraws_NoGroup(rows) == DiffBlock(SortRows(rows))

\* runner.py 230-236: sort_index, then the differences per location
DailyDraws(rows) ==
    LET sorted == SortRows(rows)
        locs == SortedSeq(LocationsOf(sorted))
    IN  Flatten([i \in 1..Len(locs) |->
            DiffBlock(SelectSeq(sorted, LAMBDA r : r.location_id = locs[i]))])

\* the file of draw d written by data.write_infections
InfectionFile(d) == "infections/draw_" \o ToString(d)

\* what data.write_infections gets of draw d: its daily deaths
InfectionDraw(rows, d) ==
    [i \in 1..Len(rows) |->
        [location_id |-> rows[i].location_id, date |-> rows[i].date, value |-> rows[i].draws[d + 1]]]

RECURSIVE WithFiles(_, _, _)
\* the files 0 .. n-1 of the infection draws added to the written files
WithFiles(w, rows, n) ==
    IF n = 0 THEN w
    ELSE WithFiles(w, rows, n - 1) @@ (InfectionFile(n - 1) :> InfectionDraw(rows, n - 1))

-----------------------------------------------------------------------------
(* The bundles the collection step can load.                               *)

SeqsUpTo(S, maxlen) == UNION {[1..k -> S] : k \in 1..maxlen}

RowStatus == {"ok", "nan_last", "nan_all"}

Reversed(s) == [i \in 1..Len(s) |-> s[Len(s) + 1 - i]]

\* a bundle whose smooth draws are missing as status says, date by date
NanBundle(loc, status, n) ==
    [model_data |-> [d \in 1..Len(status) |-> [location_id |-> loc, Date |-> d]],
     smooth_draws |-> [d \in 1..Len(status) |->
        [location_id |-> loc, date |-> d,
         draws |-> [j \in 1..n |->
            IF status[d] = "nan_all" \/ (status[d] = "nan_last" /\ j = n)
            THEN NaN ELSE d + j]]]]

\* a bundle without missing values: draw j of date d is cum[d] + (j-1)*d
ValueBundle(loc, cum, n, descending) ==
    LET rows == [d \in 1..Len(cum) |->
                    [location_id |-> loc, date |-> d,
                     draws |-> [j \in 1..n |-> cum[d] + (j - 1) * d]]]
    IN  [model_data |-> [d \in 1..Len(cum) |-> [location_id |-> loc, Date |-> d]],
         smooth_draws |-> IF descending THEN Reversed(rows) ELSE rows]

-----------------------------------------------------------------------------
(* make_deaths as a process.                                               *)

InitDeaths ==
    /\ pc = "make_deaths"
    /\ n_draws \in DeathDrawBudgets
    /\ model_data = FrameOver(LocationIds \cup PARENT_MODEL_LOCATIONS, 2)
    /\ results_path = <<>>
    /\ files = {} /\ pending = {}
    /\ results = <<>>
    /\ dow_holdouts = 0
    /\ location_id = 0 /\ data_file = <<>> /\ rm_model_data = <<>> /\ doy_holdouts = <<>>
    /\ iteration_n_draws = <<>> /\ iter_data = <<>>
    /\ rm_noisy_draws = <<>> /\ rm_smooth_draws = <<>>
    /\ agg_model_data = <<>> /\ agg_draw_df = <<>>
    /\ smooth_draws = <<>> /\ smooth_draws_nans = <<>>
    /\ app_metadata = <<>> /\ report = <<>> /\ written = <<>>

\* runner.py 68-76: the pre-model aggregates are appended to model_data
PreAggregate ==
    /\ pc = "make_deaths"
    /\ LET agg_locations == SortedSeq(AggregateIds)
           agg == ComputeLocationAggregatesData(model_data, agg_locations)
       IN  /\ agg_model_data' = agg
           /\ model_data' = SortRows(model_data \o agg)
    /\ pc' = "inputs_aggregated"
    /\ UNCHANGED <<rmVars, dirVars, agg_draw_df, smooth_draws, smooth_draws_nans,
                   app_metadata, report, written>>

\* runner.py 137-147: the loaded bundles are concatenated in loading order and
\* the parent locations' input rows are appended to the post-model data
CompileFrom(loaded) ==
    /\ pc = "inputs_aggregated"
    /\ results' = loaded
    /\ smooth_draws' = Flatten([i \in 1..Len(loaded) |-> loaded[i].smooth_draws])
    /\ model_data' =
          Flatten([i \in 1..Len(loaded) |-> loaded[i].model_data])
            \o SelectSeq(model_data, LAMBDA r : r.location_id \in PARENT_MODEL_LOCATIONS)
    /\ pc' = "compiled"
    /\ UNCHANGED <<location_id, dow_holdouts, n_draws, data_file, rm_model_data,
                   doy_holdouts,
                   iteration_n_draws, iter_data, rm_noisy_draws, rm_smooth_draws>>
    /\ UNCHANGED <<dirVars, agg_model_data, agg_draw_df, smooth_draws_nans,
                   app_metadata, report, written>>

\* runner.py 105-157: the jobs run and the bundles of one or two of the job
\* locations are loaded (the directory listing of 132-136 is SpecCollect's
\* subject; here the loaded bundles are an input): bundles with missing draws
\* in listing order, or two bundles of cumulative counts in either order
Compile ==
    /\ pc = "inputs_aggregated"
    /\ LET jobs == JobLocations(model_data)
           first == SetMin(jobs)
           second == SetMin(jobs \ {first})
       IN
        \/ \E a \in jobs, sa \in SeqsUpTo(RowStatus, MaxDate) :
              CompileFrom(<<NanBundle(a, sa, n_draws)>>)
        \/ \E p \in {q \in jobs \X jobs : q[1] < q[2]},
              sa \in SeqsUpTo(RowStatus, MaxDate), sb \in SeqsUpTo(RowStatus, MaxDate) :
              CompileFrom(<<NanBundle(p[1], sa, n_draws), NanBundle(p[2], sb, n_draws)>>)
        \/ \E cum \in SeqsUpTo(CumValues, MaxDate), desc \in BOOLEAN, swap \in BOOLEAN :
              LET x == ValueBundle(first, cum, n_draws, desc)
                  y == ValueBundle(second, FixedCum, n_draws, desc)
              IN  CompileFrom(IF swap THEN <<y, x>> ELSE <<x, y>>)

\* runner.py 159-178
ContinuityCheck ==
    /\ pc = "compiled"
    /\ LET nans == SelectSeq(smooth_draws, IsNanRow)
           vals == SelectSeq(smooth_draws, NotNanRow)
           date_diffs == DateDiffs(nans, vals)
       IN  /\ smooth_draws_nans' = nans
           /\ IF nans = <<>>
              THEN /\ smooth_draws' = smooth_draws
                   /\ app_metadata' = ("nan_locations" :> <<>>) @@ app_metadata
                   /\ report' = report
                   /\ pc' = "checked"
              ELSE /\ smooth_draws' = vals
                   /\ app_metadata' =
                        ("nan_locations" :>
                            [k \in 1..Len(date_diffs) |-> date_diffs[k].location_id])
                        @@ app_metadata
                   /\ IF Raises(date_diffs)
                      THEN /\ report' = ToCsv(date_diffs, FALSE)
                           /\ pc' = "raised"
                      ELSE /\ report' = report
                           /\ pc' = "checked"
    /\ UNCHANGED <<rmVars, dirVars, model_data, agg_model_data, agg_draw_df, written>>

\* runner.py 191-199
PostAggregate ==
    /\ pc = "checked"
    /\ LET agg_locations == <<GlobalId>> \o SortedSeq(AggregateIds)
       IN  /\ agg_model_data' = Negated(ComputeLocationAggregatesData(model_data, agg_locations))
           /\ agg_draw_df' =
                Negated(ComputeLocationAggregatesDraws(smooth_draws, agg_locations, n_draws))
    /\ pc' = "aggregated"
    /\ UNCHANGED <<rmVars, dirVars, model_data, smooth_draws, smooth_draws_nans,
                   app_metadata, report, written>>

\* runner.py 212-221 (the noisy draws of model_results.csv are not modelled)
WriteDeaths ==
    /\ pc = "aggregated"
    /\ written' = ("model_data.csv" :> model_data)
                    @@ ("model_results.csv" :> <<>>)
                    @@ ("model_results_refit.csv" :> smooth_draws)
                    @@ ("model_results_refit_nans.csv" :> smooth_draws_nans)
                    @@ written
    /\ pc' = "deaths_written"
    /\ UNCHANGED <<rmVars, dirVars, model_data, agg_model_data, agg_draw_df,
                   smooth_draws, smooth_draws_nans, app_metadata, report>>

\* runner.py 223-249
WriteInfections ==
    /\ pc = "deaths_written"
    /\ smooth_draws' = DailyDraws(smooth_draws)
    /\ written' = WithFiles(written, DailyDraws(smooth_draws), n_draws)
                    @@ ("ratios.csv" :> <<>>)
    /\ pc' = "done"
    /\ UNCHANGED <<rmVars, dirVars, model_data, agg_model_data, agg_draw_df,
                   smooth_draws_nans, app_metadata, report>>

NextDeaths ==
    PreAggregate \/ Compile \/ ContinuityCheck \/ PostAggregate \/ WriteDeaths \/ WriteInfections

SpecDeaths == InitDeaths /\ [][NextDeaths]_vars

-----------------------------------------------------------------------------
(* Properties of the cross-location phase.                                 *)

RowHasNaN(row) == \E j \in 1..Len(row.draws) : row.draws[j] = NaN

\* every row of the collected smooth draws: the rows kept and the rows set aside
Collected == smooth_draws \o smooth_draws_nans

NanDates(rows, loc) ==
    {rows[i].date : i \in {k \in 1..Len(rows) : rows[k].location_id = loc /\ RowHasNaN(rows[k])}}

ValDates(rows, loc) ==
    {rows[i].date : i \in {k \in 1..Len(rows) : rows[k].location_id = loc /\ ~RowHasNaN(rows[k])}}

\* location loc has a NaN row dated before one of its non-NaN rows
InteriorGapAt(rows, loc) == \E x \in NanDates(rows, loc), y \in ValDates(rows, loc) : x < y

InteriorGap(rows) == \E loc \in LocationsOf(rows) : InteriorGapAt(rows, loc)

\* every NaN row of every location is dated after all its non-NaN rows
TailOnly(rows) ==
    \A loc \in LocationsOf(rows) :
        \A x \in NanDates(rows, loc), y \in ValDates(rows, loc) : x > y

\* C4: if every location's NaN rows are all dated strictly after its latest
\* non-NaN row the continuity check does not raise and processing continues;
\* if some location has a NaN row dated before its latest non-NaN row
\* (gap < 0) the check raises.
C4_ContinuityCheck ==
    pc \in {"checked", "raised"} =>
        /\ TailOnly(Collected) => pc = "checked"
        /\ InteriorGap(Collected) => pc = "raised"

\* the check raised on a table where one location has NaN rows on both sides
\* of an observed row and another has only a trailing NaN row
C4_Witness ==
    /\ pc = "raised"
    /\ \E a, b \in LocationsOf(Collected) :
          /\ a # b
          /\ \E x, z \in NanDates(Collected, a), y \in ValDates(Collected, a) : x < y /\ y < z
          /\ NanDates(Collected, b) # {}
          /\ ValDates(Collected, b) # {}
          /\ ~InteriorGapAt(Collected, b)

GapOf(rows, loc) == SetMin(NanDates(rows, loc)) - SetMax(ValDates(rows, loc))

\* C5: whenever the continuity check aborts, problem_location_report.csv has
\* been written before the error is raised and holds, for every location with
\* gap < 0, a record giving the location's id and its gap in days.
C5_ReportNamesLocations ==
    pc = "raised" =>
        /\ report # <<>>
        /\ \A loc \in LocationsOf(Collected) :
              InteriorGapAt(Collected, loc) =>
                  \E k \in 2..Len(report) :
                      /\ Len(report[k]) = 2
                      /\ report[k][1] = loc
                      /\ report[k][2] = GapOf(Collected, loc)

\* C6: in a run whose smooth draws have an interior gap no published output is
\* ever written and no post-model aggregate is computed; and whenever
\* model_results_refit.csv is written it holds no row with a missing draw.
C6_NoPartialOutput ==
    /\ InteriorGap(Collected) =>
          /\ DOMAIN written = {}
          /\ agg_draw_df = <<>>
          /\ pc \notin {"aggregated", "deaths_written", "done"}
    /\ "model_results_refit.csv" \in DOMAIN written =>
          \A i \in 1..Len(written["model_results_refit.csv"]) :
              ~RowHasNaN(written["model_results_refit.csv"][i])

\* the run stopped on a row that misses one of its two draws, before an
\* observed row, with the report written and nothing published
C6_Witness ==
    /\ pc = "raised"
    /\ n_draws = 2
    /\ report # <<>>
    /\ DOMAIN written = {}
    /\ agg_draw_df = <<>>
    /\ \E i \in 1..Len(smooth_draws_nans) :
          /\ smooth_draws_nans[i].draws[1] # NaN
          /\ smooth_draws_nans[i].draws[2] = NaN
          /\ \E y \in ValDates(Collected, smooth_draws_nans[i].location_id) :
                smooth_draws_nans[i].date < y

\* the values of draw column j of location loc, by date 1, 2, ...
DrawSeries(rows, loc, j) ==
    [d \in 1..Cardinality(DatesOf(rows, loc)) |->
        rows[CHOOSE i \in 1..Len(rows) : rows[i].location_id = loc /\ rows[i].date = d].draws[j]]

\* C7: the infection step replaces, for every location and every draw column
\* on its own, the cumulative values in ascending date order by first
\* differences with a zero predecessor: the first date keeps its cumulative
\* value, every later date gets its value minus the value of the same
\* location's previous date, never of another location.
C7_DailyIncrements ==
    pc = "done" =>
        LET cum == written["model_results_refit.csv"]
            CumAt(loc, d) ==
                cum[CHOOSE i \in 1..Len(cum) : cum[i].location_id = loc /\ cum[i].date = d].draws
            Earlier(loc, d) == {x \in DatesOf(cum, loc) : x < d}
        IN  /\ Len(smooth_draws) = Len(cum)
            /\ {<<smooth_draws[i].location_id, smooth_draws[i].date>> : i \in 1..Len(smooth_draws)}
                 = {<<cum[i].location_id, cum[i].date>> : i \in 1..Len(cum)}
            /\ \A i \in 1..Len(smooth_draws) :
                  LET r == smooth_draws[i]
                      before == Earlier(r.location_id, r.date)
                  IN  /\ DOMAIN r.draws = 1..n_draws
                      /\ \A j \in 1..n_draws :
                            r.draws[j] =
                                CumAt(r.location_id, r.date)[j]
                                  - (IF before = {} THEN 0
                                     ELSE CumAt(r.location_id, SetMax(before))[j])

\* cumulative 5, 12, 20 became 5, 7, 8, in a table of two locations and two
\* draws that was loaded with the other location first and the dates descending
C7_Witness ==
    /\ pc = "done"
    /\ n_draws = 2
    /\ LocationsOf(smooth_draws) = {2, 3}
    /\ DrawSeries(written["model_results_refit.csv"], 2, 1) = <<5, 12, 20>>
    /\ DrawSeries(smooth_draws, 2, 1) = <<5, 7, 8>>
    /\ DrawSeries(smooth_draws, 2, 2) = <<6, 8, 9>>
    /\ DrawSeries(smooth_draws, 3, 1) = <<12, 8>>
    /\ written["model_results_refit.csv"][1].location_id = 3
    /\ written["model_results_refit.csv"][1].date = 2

NegatedIds(S) == {0 - a : a \in S}

C9_NanLocationsRecorded ==
    pc = "checked" =>
        /\ \A i \in 1..Len(smooth_draws) : ~RowHasNaN(smooth_draws[i])
        /\ \A i \in 1..Len(smooth_draws_nans) : RowHasNaN(smooth_draws_nans[i])
        /\ "nan_locations" \in DOMAIN app_metadata
        /\ Range(app_metadata["nan_locations"]) = LocationsOf(smooth_draws_nans)
        /\ (smooth_draws_nans = <<>> => app_metadata["nan_locations"] = <<>>)

====
